---- MODULE Spec2Model ----
(***************************************************************************)
(* tekcap: GPIB-serial Tektronix screenshot tool (src/main.c).             *)
(*                                                                         *)
(* main() is modelled as a sequential process whose position is pc; each   *)
(* action is one system call of main() together with the straight-line     *)
(* code that follows it up to the next call.  The environment (the serial  *)
(* port, the file system, the command line) answers each call              *)
(* nondeterministically.                                                   *)
(*                                                                         *)
(* Memory is modelled as runs of bytes: a run [src, id, off, len] stands   *)
(* for len bytes taken from position off of the byte string named          *)
(* (src, id).  strBuf and the output file are sequences of runs.           *)
(***************************************************************************)
EXTENDS Integers, Sequences, FiniteSets, TLC

\* ------------------------------------------------------------------ bounds
\* most arguments after the program name on the command line
MaxArgs == 3
\* most non-empty reads answered by the port in one run, while the input is
\* flushed and in the receive loop together
MaxReads == 2
\* most transport writes that end short (success, fewer bytes) in one run
MaxPartial == 1
\* most non-empty reads of the receive loop in a run of SpecMarkers
MaxChunks == 3

\* ------------------------------------------------------- program constants
MAX_TIMEOUTS == 1
BufSize == 1024
ReadTimeout == 1000
LivenessWindow == 1000
MaxAddress == 30
MaxBaud == 6000000
DefaultBaud == 230400
DefaultAddress == 1

\* ---------------------------------------------------------- runs of bytes
Run(s, k, o, n) == [src |-> s, id |-> k, off |-> o, len |-> n]

RECURSIVE RunsLen(_)
RunsLen(rs) == IF rs = <<>> THEN 0 ELSE Head(rs).len + RunsLen(Tail(rs))

\* the first n bytes of rs
RECURSIVE Take(_, _)
Take(rs, n) ==
    IF n <= 0 \/ rs = <<>> THEN <<>>
    ELSE IF Head(rs).len <= n
         THEN <<Head(rs)>> \o Take(Tail(rs), n - Head(rs).len)
         ELSE <<Run(Head(rs).src, Head(rs).id, Head(rs).off, n)>>

\* rs without its first n bytes
RECURSIVE Drop(_, _)
Drop(rs, n) ==
    IF n <= 0 \/ rs = <<>> THEN rs
    ELSE IF Head(rs).len <= n
         THEN Drop(Tail(rs), n - Head(rs).len)
         ELSE <<Run(Head(rs).src, Head(rs).id, Head(rs).off + n, Head(rs).len - n)>>
              \o Tail(rs)

\* adjacent runs that continue one another are one run
RECURSIVE Norm(_)
Norm(rs) ==
    IF Len(rs) < 2 THEN rs
    ELSE LET a == rs[1]
             b == rs[2]
         IN IF a.src = b.src /\ a.id = b.id /\ a.off + a.len = b.off
            THEN Norm(<<Run(a.src, a.id, a.off, a.len + b.len)>> \o Tail(Tail(rs)))
            ELSE <<a>> \o Norm(Tail(rs))

\* rs with the bytes from position pos on overwritten by data (rs may grow)
Overwrite(rs, pos, data) ==
    Norm(Take(rs, pos) \o data \o Drop(rs, pos + RunsLen(data)))

\* bytes before the first NUL byte, as strlen() counts them
RECURSIVE StrLen(_)
StrLen(rs) ==
    IF rs = <<>> \/ Head(rs).src = "nul" THEN 0
    ELSE Head(rs).len + StrLen(Tail(rs))

NulByte == <<Run("nul", 0, 0, 1)>>

\* ------------------------------------------------------------ command line
OptTokens == {"-p", "-b", "-a"}
NumTokens == {"-1", "0", "30", "31", "6000000", "6000001"}
Tokens == OptTokens \cup NumTokens \cup {"out"}

\* strtol(tok, NULL, 10): the leading decimal number, 0 when there is none
StrToL(tok) ==
    CASE tok = "-1" -> -1
      [] tok = "0" -> 0
      [] tok = "30" -> 30
      [] tok = "31" -> 31
      [] tok = "6000000" -> 6000000
      [] tok = "6000001" -> 6000001
      [] OTHER -> 0

\* args[k] is argv[k]; argc = Len(args) + 1; argv[argc] is the null pointer
Argc(args) == Len(args) + 1
IsNull(args, k) == k >= Argc(args)
ArgIs(args, k, opt) == IF IsNull(args, k) THEN FALSE ELSE args[k] = opt
ArgNum(args, k) == IF IsNull(args, k) THEN 0 ELSE StrToL(args[k])

\* one pass of the option loop's body at index st.i; st.ub records that a null
\* argv entry was handed to strcmp/strtol, st.top the largest index read.
\* (The port name that -p copies is not kept: nothing below depends on it.)
ParseBody(args, st) ==
    LET p == ArgIs(args, st.i, "-p")
        i1 == IF p THEN st.i + 1 ELSE st.i
        b == ArgIs(args, i1, "-b")
        i2 == IF b THEN i1 + 1 ELSE i1
        baud2 == IF b THEN ArgNum(args, i2) ELSE st.baud
        a == ArgIs(args, i2, "-a")
        i3 == IF a THEN i2 + 1 ELSE i2
        addr3 == IF a THEN ArgNum(args, i3) ELSE st.address
    IN [i |-> i3 + 1, baud |-> baud2, address |-> addr3,
        ub |-> st.ub \/ IsNull(args, i2) \/ IsNull(args, i3),
        top |-> IF i3 > st.top THEN i3 ELSE st.top]

RECURSIVE ParseLoop(_, _)
ParseLoop(args, st) ==
    IF st.i < Argc(args) - 1 THEN ParseLoop(args, ParseBody(args, st)) ELSE st

ParseArgs(args) ==
    ParseLoop(args, [i |-> 1, baud |-> DefaultBaud, address |-> DefaultAddress,
                     ub |-> FALSE, top |-> 0])

\* faulty variant of AddressInRange: the upper limit itself is refused
AddressBelowLimit(a) == ~(a >= MaxAddress \/ a < 0)

AddressInRange(a) == ~(a > MaxAddress \/ a < 0)
BaudInRange(b) == ~(b < 0 \/ b > MaxBaud)

\* the exit code of the sanity checks, 0 when they pass
SanityCode(args, st) ==
    IF st.i >= Argc(args) THEN 1
    ELSE IF ~AddressInRange(st.address) THEN 2
    ELSE IF ~BaudInRange(st.baud) THEN 3
    ELSE 0

RECURSIVE SeqsUpTo(_, _)
SeqsUpTo(S, n) ==
    IF n = 0 THEN {<<>>}
    ELSE LET shorter == SeqsUpTo(S, n - 1)
         IN shorter \cup {Append(s, x) : s \in {t \in shorter : Len(t) = n - 1}, x \in S}

ArgVectors == SeqsUpTo(Tokens, MaxArgs)

\* command lines that pass the sanity checks, with a one-digit and a
\* two-digit address
CaptureArgs == {<<"out">>, <<"-a", "30", "out">>}


\* ------------------------------------------------------------------- state
VARIABLES
    argv,        \* argv[1..argc-1] until the option loop has read it, then <<>>
    pc,          \* position of main()
    exitCode,    \* value returned by main(), -1 while running
    address,     \* int address
    baud,        \* long baud
    hComm,       \* "null" | "invalid" | "open" | "stray" | "closed"
    hOutput,     \* "null" | "invalid" | "open" | "closed"
    strBuf,      \* char strBuf[1024], as runs
    numBytes,    \* int numBytes
    err,         \* int err
    ticks,       \* GetTickCount(), ms since the program started
    lastTicks,   \* long lastTicks
    bytesTilDot, \* int bytesTilDot
    timeout,     \* int timeout
    file,        \* content of the output file, as runs
    filePos,     \* write position of hOutput
    io,          \* history: every ReadFile/WriteFile call, in order
    closeLog,    \* history: every CloseHandle call, in order
    shown,       \* history: the version string printed
    nulAt,       \* history: the index of strBuf[numBytes] = 0, -1 before it
    marks,       \* history: progress and retry markers printed, in order
    feed,        \* what the port has to deliver in this run (see Feed)
    prior,       \* history: the output file as CreateFile found it
    cfgLog       \* history: the results of the configuration calls, in order

vars == <<argv, pc, exitCode, address, baud, hComm, hOutput, strBuf, numBytes, err,
          ticks, lastTicks, bytesTilDot, timeout, file, filePos, io, closeLog,
          shown, nulAt, marks, feed, prior, cfgLog>>

\* ------------------------------------------------------------ command text
Digits(n) == IF n < 10 THEN 1 ELSE 2

\* sprintf_s(strBuf, ..., text): the text and its terminating NUL at the front
Sprintf(buf, name, k, n) == Overwrite(buf, 0, <<Run(name, k, 0, n)>> \o NulByte)

FlushCmd == <<Run("flush", 0, 0, 8)>>
VerCmd == <<Run("ver", 0, 0, 5)>>
\* faulty variant of ArmCmd: the trigger is sent ahead of address and mode
ArmCmdTriggerFirst(a) == <<Run("trig", 0, 0, 11), Run("addr", a, 0, 8 + Digits(a)),
                           Run("mode", 0, 0, 9)>>

\* "++addr %i\r++mode 1\rHARDC STAR\r": the three commands, in this order
ArmCmd(a) == <<Run("addr", a, 0, 8 + Digits(a)), Run("mode", 0, 0, 9),
               Run("trig", 0, 0, 11)>>

ArmText(buf, a) == Overwrite(buf, 0, ArmCmd(a) \o NulByte)
ReadText(buf) == Sprintf(buf, "read", 0, 6)
TermText(buf) == Sprintf(buf, "term", 0, 1)

\* the bytes WriteFile(hComm, strBuf, strlen(strBuf), ...) is asked to send
CommandBytes(buf) == Take(buf, StrLen(buf))

\* faulty variant of OutputBytes: sized like a command write, by strlen(strBuf)
OutputBytesByStrlen(buf, n) == Take(buf, StrLen(buf))

\* the bytes WriteFile(hOutput, strBuf, numBytes, ...) is asked to write
OutputBytes(buf, n) == Take(buf, n)

\* ----------------------------------------------------------- environment
\* one ReadFile/WriteFile call; t is GetTickCount() when the call was made
Event(h, op, at, ok, want, n, data) ==
    [h |-> h, op |-> op, at |-> at, ok |-> ok, want |-> want, n |-> n, data |-> data,
     t |-> ticks]

\* calls logged at step `at` that moved at least one byte
Moved(log, at) == Cardinality({k \in 1..Len(log) : log[k].at = at /\ log[k].n > 0})

\* transport writes that reported success and sent fewer bytes than asked
Partials(log) ==
    Cardinality({k \in 1..Len(log) :
        log[k].h = "comm" /\ log[k].op = "write" /\ log[k].ok /\ log[k].n < log[k].want})

\* what WriteFile(hComm, ...) of len bytes can answer: TRUE with all bytes sent,
\* TRUE with fewer (the write timeout ran out), or FALSE
WriteOutcomes(log, h, len) ==
    IF h # "open" THEN {[ok |-> FALSE, n |-> 0]}
    ELSE {[ok |-> TRUE, n |-> len], [ok |-> FALSE, n |-> 0]}
         \cup (IF Partials(log) < feed.short
               THEN {[ok |-> TRUE, n |-> len - 1]}
               ELSE {})

\* what ReadFile(hComm, strBuf, sizeof(strBuf), ...) can answer: FALSE, or TRUE
\* with 0..sizeof(strBuf) bytes, sampled by `sizes`
ReadOutcomes(h, sizes) ==
    IF h # "open" THEN {[ok |-> FALSE, n |-> 0]}
    ELSE {[ok |-> FALSE, n |-> 0]} \cup {[ok |-> TRUE, n |-> m] : m \in sizes}

\* non-empty reads of the flush loop and the receive loop so far
DataReads(log) == Moved(log, "flush_read") + Moved(log, "loop_read")

\* what the port does in a run: the sizes of the non-empty reads while the
\* input is flushed (stale) and in the receive loop (data), how many
\* non-empty reads there are at most, and how many of its writes end short at
\* most.  CaptureFeed has a chunk shorter than
\* the "+read" text and a full buffer; MarkerFeed has chunks that add up to
\* exactly sizeof(strBuf) and chunks that pass it.
CaptureFeed == [stale |-> {BufSize}, data |-> {3, BufSize}, most |-> MaxReads,
                short |-> MaxPartial]
MarkerFeed == [stale |-> {}, data |-> {10, 512, BufSize}, most |-> MaxChunks,
               short |-> 0]

StaleSizes(log) == IF DataReads(log) < feed.most THEN {0} \cup feed.stale ELSE {0}
ReplySizes == {0, 5, BufSize}
DataSizes(log) == IF DataReads(log) < feed.most THEN {0} \cup feed.data ELSE {0}

\* the bytes the k-th logged call received
Received(k, n) == IF n = 0 THEN <<>> ELSE <<Run("rx", k, 0, n)>>

\* ReadFile into strBuf: the received bytes replace the front of the buffer
ReadInto(buf, k, n) == Overwrite(buf, 0, Received(k, n))

\* a transport write, logged
LogWrite(log, at, bytes, o) ==
    Append(log, Event("comm", "write", at, o.ok, RunsLen(bytes), o.n, Take(bytes, o.n)))

\* a transport read, logged
LogRead(log, at, o) ==
    Append(log, Event("comm", "read", at, o.ok, BufSize, o.n, Received(Len(log) + 1, o.n)))

\* ---------------------------------------------------------------- initial
InitWith(lines, feeds) ==
    /\ argv \in lines
    /\ feed \in feeds
    /\ prior = <<>>
    /\ cfgLog = <<>>
    /\ pc = "start"
    /\ exitCode = -1
    /\ address = DefaultAddress
    /\ baud = DefaultBaud
    /\ hComm = "null"
    /\ hOutput = "null"
    /\ strBuf = <<Run("nul", 0, 0, BufSize)>>
    /\ numBytes = 0
    /\ err = 0
    /\ ticks = 0
    /\ lastTicks = 0
    /\ bytesTilDot = 0
    /\ timeout = 0
    /\ file = <<>>
    /\ filePos = 0
    /\ io = <<>>
    /\ closeLog = <<>>
    /\ shown = <<>>
    /\ nulAt = -1
    /\ marks = <<>>

Init == InitWith(ArgVectors, {CaptureFeed})
InitCapture == InitWith(CaptureArgs, {CaptureFeed})
InitMarkers == InitWith({<<"out">>}, {MarkerFeed})

\* ------------------------------------------------ lines 257-284: mainOut
\* CloseHandle on a handle: an open one is closed, any other value is left
Closed(h) == IF h = "open" THEN "closed" ELSE h

\* what FormatMessage and LocalFree can do at mainOut: with err = 0 they are
\* not called.  When FormatMessage fails the inner `err` pointer is never set
\* and LocalFree(err) frees an uninitialised pointer, which is undefined: it
\* does nothing, or the process dies.
MessageOutcomes(code) ==
    IF code = 0 THEN {"skipped"} ELSE {"text", "none", "none_dies"}

\* mainOut reached with err = code and the handles hc, ho: the message,
\* CloseHandle(hComm), CloseHandle(hOutput), Sleep(500), return err.  (The
\* last Sleep is not clocked: nothing reads the clock after it.)
MainOut(code, hc, ho) ==
    \E fm \in MessageOutcomes(code) :
        /\ err' = code
        /\ IF fm = "none_dies"
           THEN /\ pc' = "crashed"
                /\ hComm' = hc
                /\ hOutput' = ho
                /\ UNCHANGED <<closeLog, exitCode>>
           ELSE /\ closeLog' = closeLog \o <<[h |-> "comm", was |-> hc],
                                             [h |-> "out", was |-> ho]>>
                /\ hComm' = Closed(hc)
                /\ hOutput' = Closed(ho)
                /\ exitCode' = code
                /\ pc' = "exited"

\* main() goes on to step `to`
Goto(to) ==
    /\ pc' = to
    /\ UNCHANGED <<hComm, hOutput, closeLog, exitCode>>

\* ------------------------------------------------- lines 54-106: arguments
\* No arguments: usage, return 0.  Otherwise the option loop and the sanity
\* checks, which return without passing mainOut.  Handing the null argv[argc]
\* to strcmp/strtol is undefined: the process dies, or the call answers
\* "no match"/0 and main() goes on.  argv is not read after line 106 and is
\* dropped from the state here.
Start ==
    /\ pc = "start"
    /\ argv' = <<>>
    /\ \E dies \in BOOLEAN :
        LET st == ParseArgs(argv)
            code == SanityCode(argv, st)
        IN IF Argc(argv) <= 1
           THEN /\ ~dies
                /\ pc' = "exited"
                /\ exitCode' = 0
                /\ UNCHANGED <<address, baud>>
           ELSE /\ dies => st.ub
                /\ address' = st.address
                /\ baud' = st.baud
                /\ pc' = IF dies THEN "crashed"
                         ELSE IF code # 0 THEN "exited" ELSE "open_port"
                /\ exitCode' = IF ~dies /\ code # 0 THEN code ELSE -1
    /\ UNCHANGED <<hComm, hOutput, strBuf, numBytes, err, ticks, lastTicks,
                   bytesTilDot, timeout, file, filePos, io, closeLog, shown,
                   nulAt, marks, feed, prior, cfgLog>>

\* ------------------------------------------------ lines 108-120: open port
OpenPort ==
    /\ pc = "open_port"
    /\ \E ok \in BOOLEAN :
        IF ok THEN /\ hComm' = "open"
                   /\ pc' = "configure"
                   /\ UNCHANGED <<err, hOutput, closeLog, exitCode>>
              ELSE MainOut(4, "invalid", hOutput)
    /\ UNCHANGED <<argv, feed, prior, cfgLog, address, baud, strBuf, numBytes, ticks, lastTicks,
                   bytesTilDot, timeout, file, filePos, io, shown, nulAt, marks>>

\* ------------------------------------------- lines 122-164: configure port
\* SetCommState, SetCommTimeouts, SetupComm, each called only when the one
\* before it succeeded; failedAt = 0 when all three succeed.
\* faulty variant of ConfigResult: the result of SetupComm is not looked at
ConfigResultLastIgnored(failedAt) == IF failedAt \in {0, 3} THEN 1 ELSE 0

ConfigResult(failedAt) == IF failedAt = 0 THEN 1 ELSE 0

\* the results of the calls made, in order: a call is made only when the one
\* before it returned TRUE
ConfigCalls(failedAt) ==
    [k \in 1..(IF failedAt = 0 THEN 3 ELSE failedAt) |-> k # failedAt]

Configure ==
    /\ pc = "configure"
    /\ \E failedAt \in 0..3 :
        /\ cfgLog' = ConfigCalls(failedAt)
        /\ IF ConfigResult(failedAt) = 0
           THEN MainOut(5, hComm, hOutput)
           ELSE /\ err' = ConfigResult(failedAt)
                /\ Goto("flush_write")
    /\ UNCHANGED <<argv, feed, prior, address, baud, strBuf, numBytes, ticks, lastTicks,
                   bytesTilDot, timeout, file, filePos, io, shown, nulAt, marks>>

\* ---------------------------------------------- lines 166-175: flush input
BoolInt(b) == IF b THEN 1 ELSE 0

\* line 167: err = WriteFile(hComm, "\r\r+read\r")
FlushWrite ==
    /\ pc = "flush_write"
    /\ \E o \in WriteOutcomes(io, hComm, RunsLen(FlushCmd)) :
        /\ err' = BoolInt(o.ok)
        /\ numBytes' = o.n
        /\ io' = LogWrite(io, "flush_write", FlushCmd, o)
    /\ Goto("flush_read")
    /\ UNCHANGED <<argv, feed, prior, cfgLog, address, baud, strBuf, ticks, lastTicks, bytesTilDot,
                   timeout, file, filePos, shown, nulAt, marks>>

\* faulty variant of DrainAgain: the loop is left after its first read
DrainNever(n) == FALSE

\* line 175: while (numBytes > 0)
DrainAgain(n) == n > 0

\* lines 169-175: one pass of do { Sleep(10); ReadFile } while (numBytes > 0)
FlushRead ==
    /\ pc = "flush_read"
    /\ \E o \in ReadOutcomes(hComm, StaleSizes(io)) :
        /\ io' = LogRead(io, "flush_read", o)
        /\ numBytes' = o.n
        /\ ticks' = ticks + 10 + (IF o.ok /\ o.n = 0 THEN ReadTimeout ELSE 0)
        /\ IF ~o.ok
           THEN /\ MainOut(12, hComm, hOutput)
                /\ strBuf' = strBuf
           ELSE /\ strBuf' = ReadInto(strBuf, Len(io) + 1, o.n)
                /\ err' = err
                /\ Goto(IF DrainAgain(o.n) THEN "flush_read" ELSE "ver_write")
    /\ UNCHANGED <<argv, feed, prior, cfgLog, address, baud, lastTicks, bytesTilDot, timeout, file,
                   filePos, shown, nulAt, marks>>

\* -------------------------------------------------- lines 176-184: identify
\* line 176: err = err && WriteFile(hComm, "+ver\r")
VerWrite ==
    /\ pc = "ver_write"
    /\ IF err = 0
       THEN UNCHANGED <<err, numBytes, io>>
       ELSE \E o \in WriteOutcomes(io, hComm, RunsLen(VerCmd)) :
               /\ err' = BoolInt(o.ok)
               /\ numBytes' = o.n
               /\ io' = LogWrite(io, "ver_write", VerCmd, o)
    /\ Goto("ver_read")
    /\ UNCHANGED <<argv, feed, prior, cfgLog, address, baud, strBuf, ticks, lastTicks, bytesTilDot,
                   timeout, file, filePos, shown, nulAt, marks>>

\* line 179: if (!err), after err = err && ReadFile(...) gave `answer`
IdentifyFailed(e, answer) == e = 0 \/ ~answer.ok

\* strBuf[n] = 0 for n < sizeof(strBuf)
Terminate(buf, n) == Overwrite(buf, n, NulByte)

\* lines 177-184: Sleep(100); err = err && ReadFile; strBuf[numBytes] = 0;
\* the version is printed.  With numBytes = sizeof(strBuf) the store lands on
\* the byte after strBuf, which is undefined: `hit` is the object it lands on.
VerRead ==
    /\ pc = "ver_read"
    /\ IF err = 0
       THEN /\ MainOut(6, hComm, hOutput)
            /\ ticks' = ticks + 100
            /\ UNCHANGED <<numBytes, io, strBuf, shown, nulAt>>
       ELSE \E o \in ReadOutcomes(hComm, ReplySizes), hit \in {"none", "hComm"} :
               /\ io' = LogRead(io, "ver_read", o)
               /\ numBytes' = o.n
               /\ ticks' = ticks + 100 + (IF o.ok /\ o.n = 0 THEN ReadTimeout ELSE 0)
               /\ IF IdentifyFailed(err, o)
                  THEN /\ hit = "none"
                       /\ MainOut(6, hComm, hOutput)
                       /\ UNCHANGED <<strBuf, shown, nulAt>>
                  ELSE /\ hit = "hComm" => o.n >= BufSize
                       /\ strBuf' = IF o.n < BufSize
                                    THEN Terminate(ReadInto(strBuf, Len(io) + 1, o.n), o.n)
                                    ELSE ReadInto(strBuf, Len(io) + 1, o.n)
                       /\ shown' = Take(strBuf', StrLen(strBuf'))
                       /\ nulAt' = o.n
                       /\ hComm' = IF hit = "hComm" THEN "stray" ELSE hComm
                       /\ err' = 1
                       /\ pc' = "open_output"
                       /\ UNCHANGED <<hOutput, closeLog, exitCode>>
    /\ UNCHANGED <<argv, feed, prior, cfgLog, address, baud, lastTicks, bytesTilDot, timeout, file,
                   filePos, marks>>

\* --------------------------------------------- lines 186-203: output file
\* CreateFile(filename, GENERIC_WRITE, ..., OPEN_ALWAYS): an existing file is
\* opened as it is, a missing one is created empty; the position is 0.
\* (The ".bmp" appended to a name without extension is not modelled.)
OldFiles == {<<>>, <<Run("old", 0, 0, 2000)>>}

\* faulty variant of OpenAlways: CREATE_ALWAYS, an existing file is emptied
CreateAlways(old) == <<>>

\* the content of the file right after CreateFile(..., OPEN_ALWAYS, ...)
OpenAlways(old) == old

OpenOutput ==
    /\ pc = "open_output"
    /\ \E ok \in BOOLEAN, old \in OldFiles :
        IF ok THEN /\ hOutput' = "open"
                   /\ prior' = old
                   /\ file' = OpenAlways(old)
                   /\ filePos' = 0
                   /\ pc' = "arm_write"
                   /\ UNCHANGED <<err, hComm, closeLog, exitCode>>
              ELSE /\ old = <<>>
                   /\ MainOut(7, hComm, "invalid")
                   /\ UNCHANGED <<file, filePos, prior>>
    /\ UNCHANGED <<argv, feed, cfgLog, address, baud, strBuf, numBytes, ticks, lastTicks,
                   bytesTilDot, timeout, io, shown, nulAt, marks>>

\* ------------------------------------- lines 205-215: arm, first request
\* lines 205-210: "++addr %i\r++mode 1\rHARDC STAR\r", then Sleep(500)
ArmWrite ==
    /\ pc = "arm_write"
    /\ strBuf' = ArmText(strBuf, address)
    /\ \E o \in WriteOutcomes(io, hComm, RunsLen(CommandBytes(strBuf'))) :
        /\ io' = LogWrite(io, "arm_write", CommandBytes(strBuf'), o)
        /\ numBytes' = o.n
        /\ IF ~o.ok
           THEN /\ MainOut(8, hComm, hOutput)
                /\ ticks' = ticks
           ELSE /\ err' = err
                /\ ticks' = ticks + 500
                /\ Goto("req_write")
    /\ UNCHANGED <<argv, feed, prior, cfgLog, address, baud, lastTicks, bytesTilDot, timeout, file,
                   filePos, shown, nulAt, marks>>

\* lines 211-219: "+read\r"; lastTicks, bytesTilDot and timeout start
ReqWrite ==
    /\ pc = "req_write"
    /\ strBuf' = ReadText(strBuf)
    /\ \E o \in WriteOutcomes(io, hComm, RunsLen(CommandBytes(strBuf'))) :
        /\ io' = LogWrite(io, "req_write", CommandBytes(strBuf'), o)
        /\ numBytes' = o.n
        /\ IF ~o.ok
           THEN /\ MainOut(8, hComm, hOutput)
                /\ UNCHANGED <<lastTicks, bytesTilDot, timeout>>
           ELSE /\ err' = err
                /\ lastTicks' = ticks
                /\ bytesTilDot' = 0
                /\ timeout' = 0
                /\ Goto("loop_top")
    /\ UNCHANGED <<argv, feed, prior, cfgLog, address, baud, ticks, file, filePos, shown, nulAt, marks>>

\* ------------------------------------------- lines 217-251: receive loop
\* faulty variant of RetryDue: the request is repeated without waiting
RetryDueAtOnce(now, last) == now - last >= 0

\* line 221: GetTickCount() - lastTicks > 1000
RetryDue(now, last) == now - last > LivenessWindow

\* faulty variant of LoopAgain: one turn too many
LoopAgainInclusive(t) == t <= MAX_TIMEOUTS

\* line 251: while (timeout < MAX_TIMEOUTS)
LoopAgain(t) == t < MAX_TIMEOUTS

\* faulty variant of GotData: bytes that came in are taken for silence
GotDataNever(n) == FALSE

\* line 237: if (numBytes > 0)
GotData(n) == n > 0

\* lines 243-247: whether a dot is due after n more bytes, and the running count
DotDue(count, n) == count + n > BufSize

\* faulty variant of NextCount: the count starts again at 0 after a dot
NextCountReset(count, n) == IF DotDue(count, n) THEN 0 ELSE count + n

NextCount(count, n) == IF DotDue(count, n) THEN count + n - BufSize ELSE count + n

\* line 228: timeout++
TimeoutAfterRetry(t) == t + 1

\* faulty variant of TimeoutAfterData: the retry counter is not reset
TimeoutKept(t) == t

\* line 238: timeout = 0
TimeoutAfterData(t) == 0

\* lines 221-232: the request is repeated, then Sleep(10)
LoopRetry ==
    /\ pc = "loop_top"
    /\ RetryDue(ticks, lastTicks)
    /\ strBuf' = ReadText(strBuf)
    /\ \E o \in WriteOutcomes(io, hComm, RunsLen(CommandBytes(strBuf'))) :
        /\ io' = LogWrite(io, "loop_retry", CommandBytes(strBuf'), o)
        /\ numBytes' = o.n
        /\ IF ~o.ok
           THEN /\ MainOut(11, hComm, hOutput)
                /\ UNCHANGED <<timeout, lastTicks, ticks, marks>>
           ELSE /\ err' = err
                /\ timeout' = TimeoutAfterRetry(timeout)
                /\ lastTicks' = ticks
                /\ marks' = Append(marks, ":")
                /\ ticks' = ticks + 10
                /\ Goto("loop_read")
    /\ UNCHANGED <<argv, feed, prior, cfgLog, address, baud, bytesTilDot, file, filePos, shown, nulAt>>

\* lines 233-237 and, when nothing came, 250-251: ReadFile; a read that
\* brings nothing returns when the read timeout has run out; Sleep(20)
LoopRead ==
    /\ \/ pc = "loop_read"
       \/ pc = "loop_top" /\ ~RetryDue(ticks, lastTicks)
    /\ \E o \in ReadOutcomes(hComm, DataSizes(io)) :
        /\ io' = LogRead(io, "loop_read", o)
        /\ numBytes' = o.n
        /\ IF ~o.ok
           THEN /\ MainOut(9, hComm, hOutput)
                /\ UNCHANGED <<strBuf, ticks>>
           ELSE /\ err' = err
                /\ strBuf' = ReadInto(strBuf, Len(io) + 1, o.n)
                /\ IF GotData(o.n)
                   THEN /\ Goto("loop_write")
                        /\ ticks' = ticks
                   ELSE /\ ticks' = ticks + ReadTimeout + 20
                        /\ Goto(IF LoopAgain(timeout) THEN "loop_top" ELSE "term_write")
    /\ UNCHANGED <<argv, feed, prior, cfgLog, address, baud, lastTicks, bytesTilDot, timeout, file,
                   filePos, shown, nulAt, marks>>

\* what WriteFile(hOutput, ..., n bytes) can answer: TRUE with the n bytes
\* written, or FALSE with none or only part of them written
OutOutcomes(n) == {[ok |-> TRUE, n |-> n]} \cup {[ok |-> FALSE, n |-> m] : m \in {0, n - 1}}

\* lines 238-251: the bytes go to the output, the dot count and the clock;
\* Sleep(20)
LoopWrite ==
    /\ pc = "loop_write"
    /\ timeout' = TimeoutAfterData(timeout)
    /\ \E o \in OutOutcomes(RunsLen(OutputBytes(strBuf, numBytes))) :
        /\ io' = Append(io, Event("out", "write", "loop_write", o.ok,
                                  RunsLen(OutputBytes(strBuf, numBytes)), o.n,
                                  Take(OutputBytes(strBuf, numBytes), o.n)))
        /\ file' = Overwrite(file, filePos, Take(OutputBytes(strBuf, numBytes), o.n))
        /\ filePos' = filePos + o.n
        /\ IF ~o.ok
           THEN /\ MainOut(10, hComm, hOutput)
                /\ numBytes' = 0
                /\ UNCHANGED <<bytesTilDot, marks, lastTicks, ticks>>
           ELSE /\ err' = err
                /\ numBytes' = o.n
                /\ bytesTilDot' = NextCount(bytesTilDot, o.n)
                /\ marks' = IF DotDue(bytesTilDot, o.n) THEN Append(marks, ".") ELSE marks
                /\ lastTicks' = ticks
                /\ ticks' = ticks + 20
                /\ Goto(IF LoopAgain(timeout') THEN "loop_top" ELSE "term_write")
    /\ UNCHANGED <<argv, feed, prior, cfgLog, address, baud, strBuf, shown, nulAt>>

\* ---------------------------------------------- lines 252-256: terminator
\* "\r" is written and the result of the write is not looked at; err = 0 and
\* main() falls into mainOut
TermWrite ==
    /\ pc = "term_write"
    /\ strBuf' = TermText(strBuf)
    /\ \E o \in WriteOutcomes(io, hComm, RunsLen(CommandBytes(strBuf'))) :
        /\ io' = LogWrite(io, "term_write", CommandBytes(strBuf'), o)
        /\ numBytes' = o.n
    /\ MainOut(0, hComm, hOutput)
    /\ UNCHANGED <<argv, feed, prior, cfgLog, address, baud, ticks, lastTicks, bytesTilDot, timeout, file,
                   filePos, shown, nulAt, marks>>

Next ==
    \/ Start
    \/ OpenPort
    \/ Configure
    \/ FlushWrite
    \/ FlushRead
    \/ VerWrite
    \/ VerRead
    \/ OpenOutput
    \/ ArmWrite
    \/ ReqWrite
    \/ LoopRetry
    \/ LoopRead
    \/ LoopWrite
    \/ TermWrite

\* every command line of up to MaxArgs arguments
Spec == Init /\ [][Next]_vars

\* the command lines of CaptureArgs only
SpecCapture == InitCapture /\ [][Next]_vars

\* one command line, the port delivering the chunks of MarkerFeed
SpecMarkers == InitMarkers /\ [][Next]_vars

\* ================================================================ claims
\* ------------------------------------------------------- reading the state
Idx == 1..Len(io)
At(step) == {k \in Idx : io[k].at = step}
Failed == {k \in Idx : ~io[k].ok}
Min(S) == CHOOSE x \in S : \A y \in S : x <= y

\* main() returned from the sanity checks (or the usage text) with `code`
ArgsRejected(code) == pc = "exited" /\ exitCode = code /\ closeLog = <<>>

\* the option loop left i < argc: an output filename was supplied
FilenameGiven ==
    /\ pc # "start"
    /\ ~ArgsRejected(0)
    /\ ~ArgsRejected(1)
    /\ ~(pc = "crashed" /\ hComm = "null")

\* nothing was opened, read, written or closed
NoIO == hComm = "null" /\ hOutput = "null" /\ io = <<>> /\ closeLog = <<>>

Ended == pc \in {"exited", "crashed"}

\* the bytes written to the output since it was opened
Written == Take(file, filePos)

\* the non-empty results of the receive loop's reads, in order, joined
RECURSIVE JoinReads(_)
JoinReads(log) ==
    IF log = <<>> THEN <<>>
    ELSE (IF Head(log).at = "loop_read" /\ Head(log).n > 0 THEN Head(log).data ELSE <<>>)
         \o JoinReads(Tail(log))

StreamReads == JoinReads(io)
AllButLast(rs) == IF rs = <<>> THEN <<>> ELSE SubSeq(rs, 1, Len(rs) - 1)

\* --------------------------------------------------------------------- C1
\* C1 (as claimed): with an output filename supplied and a valid address, a
\* baud with 0 < baud <= 6,000,000 passes the baud check, and any other baud,
\* 0 included, is rejected with exit code 3 before the port is opened and
\* before any transport read or write.
C1_BaudRejectedOutsideRange ==
    (FilenameGiven /\ address \in 0..30)
        => IF 0 < baud /\ baud <= 6000000
           THEN ~ArgsRejected(3)
           ELSE ArgsRejected(3) /\ NoIO

\* --------------------------------------------------------------------- C2
\* C2: with an output filename supplied, an address in 0..30 passes the
\* address check; any other address ends the process with exit code 2 and
\* the port was never opened, the output file never created, and no
\* transport read or write was made.
C2_AddressValidation ==
    FilenameGiven
        => IF address \in 0..30
           THEN ~ArgsRejected(2)
           ELSE ArgsRejected(2) /\ NoIO

\* address 31 was given with a filename and refused
C2_Witness == ArgsRejected(2) /\ address = 31 /\ NoIO

\* --------------------------------------------------------------------- C3
\* C3 (as claimed): at each turn of the receive loop, and at exit by DONE or
\* by any failure, the bytes written to the output since it was opened are
\* the non-empty read results R1..Rk of the loop, joined in order.
C3_OutputEqualsReadsAtExit ==
    (pc \in {"loop_top", "term_write"} \/ (Ended /\ hOutput \in {"open", "closed"}))
        => Written = StreamReads

\* C3 (amended): the output holds R1..Rk whenever no read result waits to be
\* written, also at exit by DONE or by a failure other than an output write
\* failure; while Rk waits in strBuf the output holds R1..R(k-1); after a
\* failed output write it holds R1..R(k-1) and then a proper prefix of Rk.
\* Nothing else (the staged "+read" text included) reaches the output.
C3_ByteFidelity ==
    hOutput \in {"open", "closed"}
        => IF pc = "loop_write"
           THEN Written = AllButLast(StreamReads)
           ELSE IF err = 10
           THEN /\ Written = Take(StreamReads, filePos)
                /\ RunsLen(AllButLast(StreamReads)) <= filePos
                /\ filePos < RunsLen(StreamReads)
           ELSE Written = StreamReads

\* a capture of two chunks, one of them shorter than the retry text that was
\* staged in strBuf before it, ended with DONE
C3_Witness ==
    /\ pc = "exited"
    /\ exitCode = 0
    /\ Len(StreamReads) = 2
    /\ \E k \in At("loop_retry") : k + 1 \in At("loop_read") /\ io[k + 1].n = 3
    /\ Written = StreamReads

\* --------------------------------------------------------------------- C4
\* every read of the receive loop so far brought nothing, and no repeat of
\* the request failed
Entered == \E k \in At("req_write") : io[k].ok
Silent ==
    /\ \A k \in At("loop_read") : io[k].ok /\ io[k].n = 0
    /\ \A k \in At("loop_retry") : io[k].ok

\* C4: when every read of the receive loop returns zero bytes, the request is
\* repeated exactly once (MAX_TIMEOUTS = 1): after the second empty read the
\* loop is left, the terminator is written and main() returns 0 with nothing
\* written to the output.
C4_SilenceEndsAfterOneRetry ==
    (Entered /\ Silent)
        => /\ Cardinality(At("loop_retry")) <= 1
           /\ Cardinality(At("loop_read")) <= 2
           /\ Cardinality(At("loop_read")) = 2
                => /\ Cardinality(At("loop_retry")) = 1
                   /\ pc \in {"term_write", "exited"}
           /\ pc = "crashed" => FALSE
           /\ pc = "exited"
                => /\ exitCode = 0
                   /\ Cardinality(At("loop_retry")) = 1
                   /\ Cardinality(At("loop_read")) = 2
                   /\ io[Len(io)].at = "term_write"
                   /\ At("loop_write") = {}
                   /\ Written = <<>>
           /\ pc # "exited" => ENABLED Next

\* a run of empty reads only, ended with DONE after its one retry
C4_Witness ==
    /\ Entered
    /\ Silent
    /\ pc = "exited"
    /\ exitCode = 0
    /\ Cardinality(At("loop_retry")) = 1

\* --------------------------------------------------------------------- C5
\* the event logged right before / right after event k
Prev(k) == io[k - 1]
Follows(k, step) == k < Len(io) => io[k + 1].at = step
EmptyRead(k) == io[k].at = "loop_read" /\ io[k].ok /\ io[k].n = 0

\* C5: a silence (an empty read) that does not follow a retry is answered by
\* exactly one retry "+read" and then a read; when that read brings data the
\* data is written, the retry counter and the idle clock are reset and the
\* loop goes on with a read (not DONE, and not a retry), so that a later
\* silence is again answered by a retry; when that read brings nothing the
\* loop is left and the terminator is written.
C5_RetryThenResume ==
    /\ \A k \in At("loop_read") :
          IF EmptyRead(k)
          THEN IF Prev(k).at = "loop_retry"
               THEN Follows(k, "term_write") /\ (k = Len(io) => pc = "term_write")
               ELSE /\ Follows(k, "loop_retry")
                    /\ k = Len(io) => pc = "loop_top" /\ ticks - lastTicks > 1000
          ELSE io[k].ok => Follows(k, "loop_write") /\ (k = Len(io) => pc = "loop_write")
    /\ \A k \in At("loop_retry") : io[k].ok => Follows(k, "loop_read")
    /\ \A k \in At("loop_write") :
          io[k].ok => /\ Follows(k, "loop_read")
                      /\ k = Len(io) => /\ pc = "loop_top"
                                        /\ timeout = 0
                                        /\ ~(ticks - lastTicks > 1000)

\* a silence, one retry, data, a second silence answered by a retry of its own
C5_Witness ==
    \E k \in At("loop_retry") :
        /\ k + 4 \in At("loop_retry")
        /\ EmptyRead(k - 1)
        /\ io[k + 1].at = "loop_read" /\ io[k + 1].n > 0
        /\ io[k + 2].at = "loop_write" /\ io[k + 2].ok
        /\ EmptyRead(k + 3)

\* --------------------------------------------------------------------- C6
\* the version query was written and the read of its reply returned TRUE
\* with zero bytes
SilentReply ==
    /\ \E k \in At("ver_write") : io[k].ok
    /\ \E k \in At("ver_read") : io[k].ok /\ io[k].n = 0

\* C6 (as claimed): a version query that is answered by nothing within the
\* read timeout ends the session with exit code 6; the hardcopy command is
\* never sent and nothing is written to the output.
C6_SilentAdapterIsFatal ==
    SilentReply
        => /\ Ended
           /\ pc = "exited" => exitCode = 6
           /\ At("arm_write") = {}
           /\ At("loop_write") = {}

\* --------------------------------------------------------------------- C7
\* the exit code that belongs to the step where a call failed
StageCode(step) ==
    CASE step \in {"flush_write", "flush_read"} -> 12
      [] step \in {"ver_write", "ver_read"} -> 6
      [] step \in {"arm_write", "req_write"} -> 8
      [] step = "loop_retry" -> 11
      [] step = "loop_read" -> 9
      [] step = "loop_write" -> 10
      [] OTHER -> 0

\* calls that failed, the terminator (whose result is ignored) left out
FatalCalls == {k \in Failed : io[k].at # "term_write"}

\* C7 (as claimed): main() returns 0 only when nothing failed, and a failed
\* read or write ends it with the code of the stage the call belongs to; in
\* particular a failed write of the flush directive gives the input-flush
\* code 12.
C7_ExitCodeNamesFailingStage ==
    (pc = "exited" /\ FatalCalls # {})
        => exitCode = StageCode(io[Min(FatalCalls)].at)

\* --------------------------------------------------------------------- C8
\* C8 (as claimed): on every return of main() after the port was opened the
\* transport handle is closed exactly once, the output handle is closed
\* exactly once when it was opened, and CloseHandle is never called on a
\* handle that was not opened.
C8_ClosesOnlyOpenHandles ==
    /\ \A k \in 1..Len(closeLog) : closeLog[k].was = "open"
    /\ (pc = "exited" /\ closeLog # <<>>)
          => /\ Cardinality({k \in 1..Len(closeLog) : closeLog[k].h = "comm"}) = 1
             /\ Cardinality({k \in 1..Len(closeLog) : closeLog[k].h = "out"}) <= 1

\* --------------------------------------------------------------------- C9
\* C9 (as claimed): a transport read, transport write or output write that
\* fails (the terminator's excepted) is the last read or write of the run.
C9_NoIoAfterFailure == \A k \in FatalCalls : k = Len(io)

\* -------------------------------------------------------------------- C10
\* C10 (as claimed): the output file is opened only after the port was
\* opened and configured and flush and identify succeeded; a run that fails
\* before that returns 4 (port open), 5 (configuration), 12 (flush) or 6
\* (identify) and never creates the output file.
C10_OutputOpenedAfterHandshake ==
    /\ hOutput # "null"
          => /\ hComm # "null"
             /\ \A k \in At("flush_write") \cup At("flush_read") : io[k].ok
             /\ \A k \in At("ver_write") \cup At("ver_read") : io[k].ok
             /\ At("ver_read") # {}
    /\ (pc = "exited" /\ closeLog # <<>> /\ hOutput = "null")
          => exitCode = IF hComm = "invalid" THEN 4
                        ELSE IF io = <<>> THEN 5
                        ELSE StageCode(io[Min(FatalCalls)].at)

\* -------------------------------------------------------------------- C11
Max(a, b) == IF a >= b THEN a ELSE b

\* C11: CreateFile with OPEN_ALWAYS keeps the content of an existing output
\* file and the bytes captured are written from position 0 on: right after
\* the open the file is as it was found, and from then on, with n bytes
\* written into a file of prior length m, the file is max(m, n) bytes long,
\* its first n bytes are the bytes written and the prior bytes at positions
\* >= n are unchanged; in particular after a capture that returned 0.  A file
\* that was absent holds exactly the bytes written.
C11_OpenNeverTruncates ==
    hOutput \in {"open", "closed"}
        => /\ pc = "arm_write" => file = prior /\ filePos = 0
           /\ RunsLen(file) = Max(RunsLen(prior), filePos)
           /\ Drop(file, filePos) = Drop(prior, filePos)
           /\ prior = <<>> => file = Written
           /\ (pc = "exited" /\ exitCode = 0) => Take(file, filePos) = StreamReads

\* a capture of fewer bytes than the existing file held returned 0
C11_Witness ==
    /\ pc = "exited"
    /\ exitCode = 0
    /\ RunsLen(prior) = 2000
    /\ filePos > 0
    /\ filePos < 2000
    /\ RunsLen(file) = 2000

\* -------------------------------------------------------------------- C12
\* writes of a command string that reported success and sent fewer bytes
\* than the command is long
ShortCommandWrites ==
    {k \in At("ver_write") \cup At("arm_write") \cup At("req_write") \cup At("loop_retry") :
        io[k].ok /\ io[k].n < io[k].want}

\* C12 (as claimed): a write of a command string (identify, address/mode/
\* trigger, "+read" request or retry) that reports success with fewer bytes
\* than the command's length is treated as a write failure: it is the last
\* read or write of the run and main() ends with the write-failure code of
\* that step.
C12_ShortCommandWriteIsFatal ==
    \A k \in ShortCommandWrites :
        /\ k = Len(io)
        /\ Ended
        /\ pc = "exited" => exitCode = StageCode(io[k].at)

\* -------------------------------------------------------------------- C13
\* a configuration call returned FALSE / all three returned TRUE
ConfigFailed == \E k \in 1..Len(cfgLog) : ~cfgLog[k]
Configured == cfgLog = <<TRUE, TRUE, TRUE>>

\* C13: the transport is read or written only after SetCommState,
\* SetCommTimeouts and SetupComm all reported success; when one of them fails
\* main() ends at once, returning the port-configuration code 5 with no
\* transport read or write made and no output file, whereas a port that
\* could not be opened gives 4 and is never configured.
C13_NoIoBeforeConfigured ==
    /\ io # <<>> => Configured
    /\ hOutput # "null" => Configured
    /\ ConfigFailed
          => /\ Ended
             /\ err = 5
             /\ pc = "exited" => exitCode = 5
             /\ io = <<>>
             /\ hOutput = "null"
    /\ hComm = "invalid"
          => /\ cfgLog = <<>>
             /\ io = <<>>
             /\ pc = "exited" => exitCode = 4

\* SetCommTimeouts failed after SetCommState succeeded: main() returned 5
C13_Witness ==
    /\ cfgLog = <<TRUE, FALSE>>
    /\ pc = "exited"
    /\ exitCode = 5
    /\ io = <<>>

\* -------------------------------------------------------------------- C14
\* the transport reads and writes of the run, in order
IsComm(e) == e.h = "comm"
Wire == SelectSeq(io, IsComm)

\* the names of the byte strings a write carried, in order
Srcs(data) == [i \in 1..Len(data) |-> data[i].src]
IsPrefix(a, b) == Len(a) <= Len(b) /\ a = SubSeq(b, 1, Len(a))

\* whether operation b may come right after operation a on the wire
CanFollow(a, b) ==
    CASE a.at = "flush_write" -> b.at = "flush_read"
      [] a.at = "flush_read" -> /\ a.ok
                                /\ b.at = IF a.n > 0 THEN "flush_read" ELSE "ver_write"
      [] a.at = "ver_write" -> b.at = "ver_read"
      [] a.at = "ver_read" -> b.at = "arm_write"
      [] a.at = "arm_write" -> b.at = "req_write"
      [] a.at = "req_write" -> b.at \in {"loop_read", "loop_retry"}
      [] a.at = "loop_retry" -> b.at = "loop_read"
      [] a.at = "loop_read" -> b.at \in {"loop_read", "loop_retry", "term_write"}
      [] OTHER -> FALSE

\* what the write at a step carries: the text asked for, the sent part of it
Carries(e) ==
    CASE e.at = "flush_write" -> e.want = 8 /\ e.data = Take(<<Run("flush", 0, 0, 8)>>, e.n)
      [] e.at = "ver_write" -> e.want = 5 /\ e.data = Take(<<Run("ver", 0, 0, 5)>>, e.n)
      [] e.at = "arm_write" ->
            /\ e.want = 28 + Digits(address)
            /\ IsPrefix(Srcs(e.data), <<"addr", "mode", "trig">>)
            /\ e.n = e.want => Srcs(e.data) = <<"addr", "mode", "trig">>
            /\ e.n > 0 => e.data[1].id = address
      [] e.at \in {"req_write", "loop_retry"} ->
            e.want = 6 /\ e.data = Take(<<Run("read", 0, 0, 6)>>, e.n)
      [] e.at = "term_write" -> e.want = 1 /\ e.data = Take(<<Run("term", 0, 0, 1)>>, e.n)
      [] OTHER -> FALSE

\* the sequence w of operations is in the order of a session
InOrder(w) ==
    /\ w # <<>> => w[1].at = "flush_write"
    /\ \A k \in 1..(Len(w) - 1) : CanFollow(w[k], w[k + 1])
    /\ \A k \in 1..Len(w) :
          /\ w[k].op = "write" => Carries(w[k])
          /\ w[k].op = "read" => w[k].at \in {"flush_read", "ver_read", "loop_read"}
          /\ w[k].at \in {"req_write", "loop_retry"}
                => \E j \in 1..(k - 1) : w[j].at = "arm_write" /\ w[j].ok
          /\ w[k].at = "ver_write"
                => w[k - 1].at = "flush_read" /\ w[k - 1].ok /\ w[k - 1].n = 0

\* C14: the transport operations of a run are, in order, a prefix of: the
\* flush directive, reads until one returns zero bytes, "+ver", one reply
\* read, one write of "++addr <n>", "++mode 1", "HARDC STAR" in this order,
\* "+read", the reads of the receive loop with retries of "+read" between
\* them, the terminator.  "+ver" comes only after a read of the flush loop
\* returned zero bytes and "+read" only after the write of address, mode and
\* trigger reported success.
C14_WireOrdering == InOrder(Wire)

\* a whole session on the wire: stale bytes drained, the commands sent in
\* full to the two-digit address, data, a retry, the terminator
C14_Witness ==
    /\ pc = "exited"
    /\ exitCode = 0
    /\ address = 30
    /\ \E k \in At("flush_read") : io[k].n > 0
    /\ \E k \in At("arm_write") : io[k].n = 30
    /\ \E k \in At("loop_read") : io[k].n > 0
    /\ At("loop_retry") # {}
    /\ Wire[Len(Wire)].at = "term_write"

\* -------------------------------------------------------------------- C15
\* the bytes of rs came from one of the reads in S
FromReads(rs, S) == \E i \in 1..Len(rs) : rs[i].src = "rx" /\ rs[i].id \in S

\* the flush loop is over and main() went on
Drained == pc \notin {"start", "open_port", "configure", "flush_write", "flush_read"}
               /\ ~(Ended /\ At("flush_read") = {})
               /\ ~(Ended /\ err = 12)

\* C15: after the flush directive the flush loop reads again after every
\* read that returned more than zero bytes and is left after the first read
\* that returned zero bytes, which is its only zero-byte read; the bytes it
\* read reach neither the output file nor the version string shown; a read
\* of the loop that fails ends main() with the input-flush code 12.
C15_FlushDrain ==
    LET drain == At("flush_read")
        empty == {k \in drain : io[k].ok /\ io[k].n = 0}
    IN /\ \A k \in drain :
             IF ~io[k].ok
             THEN /\ k = Len(io)
                  /\ Ended
                  /\ err = 12
                  /\ pc = "exited" => exitCode = 12
             ELSE IF io[k].n > 0
             THEN /\ Follows(k, "flush_read")
                  /\ k = Len(io) => pc = "flush_read"
             ELSE /\ \A j \in drain : j <= k
                  /\ k = Len(io) => pc # "flush_read"
       /\ Cardinality(empty) <= 1
       /\ Drained => Cardinality(empty) = 1
       /\ ~FromReads(file, drain)
       /\ ~FromReads(shown, drain)
       /\ \A k \in Idx : io[k].h = "out" => ~FromReads(io[k].data, drain)

\* 2048 stale bytes were drained by two reads and a zero-byte read, then a
\* version shorter than the stale bytes was shown and main() returned 0
C15_Witness ==
    /\ Cardinality({k \in At("flush_read") : io[k].n = BufSize}) = 2
    /\ Cardinality(At("flush_read")) = 3
    /\ RunsLen(shown) = 5
    /\ pc = "exited"
    /\ exitCode = 0

\* -------------------------------------------------------------------- C16
\* the calls that count as progress: the first request, a read of the
\* receive loop that brought bytes, a retry
IsProgress(k) ==
    \/ io[k].at \in {"req_write", "loop_retry"}
    \/ io[k].at = "loop_read" /\ io[k].n > 0

\* retries written since the last write to the output
RetriesSinceData ==
    {k \in Idx : /\ io[k].at = "loop_retry"
                 /\ io[k].ok
                 /\ \A j \in (k + 1)..Len(io) : io[j].at # "loop_write"}

\* C16: a retry "+read" is written only when more than 1000 ms have passed
\* since the first request, since the last read that brought bytes and since
\* the last retry, whichever is latest, hence never within 1000 ms of another
\* retry and never right after a read that brought bytes; a retry adds
\* exactly one to the retry counter and restarts the clock, and the counter
\* stays within 0..MAX_TIMEOUTS.
C16_RetryPrecondition ==
    /\ \A k \in Idx :
          io[k].at = "loop_retry"
              => /\ \A j \in 1..(k - 1) : IsProgress(j) => io[k].t - io[j].t > 1000
                 /\ EmptyRead(k - 1)
                 /\ (k = Len(io) /\ io[k].ok) => lastTicks = io[k].t
    /\ timeout \in 0..MAX_TIMEOUTS
    /\ timeout = Cardinality(RetriesSinceData)

\* two retries in one run, the second after bytes had come in between
C16_Witness ==
    \E j, k \in At("loop_retry"), d \in At("loop_read") :
        /\ j < d
        /\ d < k
        /\ io[d].n > 0
        /\ io[k].ok
        /\ io[k].t - io[d].t > 1000

\* -------------------------------------------------------------------- C17
\* the sizes of the chunks the receive loop has read, in order
RECURSIVE ChunkSizes(_)
ChunkSizes(log) ==
    IF log = <<>> THEN <<>>
    ELSE (IF Head(log).at = "loop_read" /\ Head(log).n > 0 THEN <<Head(log).n>> ELSE <<>>)
         \o ChunkSizes(Tail(log))

\* progress markers printed so far
Dots == Cardinality({k \in 1..Len(marks) : marks[k] = "."})

\* C17: for chunks of 1..1024 bytes a progress marker is printed exactly when
\* the running count passes 1024, and 1024 is then taken off the count: after
\* every turn of the receive loop the bytes written are 1024 x markers + the
\* running count, and the count is within 0..1024 (within 1..1024 once bytes
\* were written, so that the markers are the whole multiples of 1024 passed).
\* Hence chunks of 512, 512 and 10 bytes followed by silence end with exit
\* code 0, 1034 bytes written and one marker.
C17_MarkerAccounting ==
    /\ err # 10
          => /\ filePos = BufSize * Dots + bytesTilDot
             /\ bytesTilDot >= 0
             /\ bytesTilDot <= BufSize
             /\ filePos > 0 => bytesTilDot >= 1
    /\ (ChunkSizes(io) = <<512, 512, 10>> /\ Ended /\ FatalCalls = {})
          => /\ pc = "exited"
             /\ exitCode = 0
             /\ filePos = 1034
             /\ Dots = 1

\* chunks of 512, 512 and 10 bytes, then silence: main() returned 0 with
\* 1034 bytes written and one marker printed, by the third chunk
C17_Witness ==
    /\ ChunkSizes(io) = <<512, 512, 10>>
    /\ pc = "exited"
    /\ exitCode = 0
    /\ filePos = 1034
    /\ Dots = 1
    /\ bytesTilDot = 10

\* -------------------------------------------------------------------- C18
\* the call logged at k is a read of the receive loop that returned zero
\* bytes and the call before it is a retry "+read" that was written
ListenedAfterRetry(k) ==
    /\ k >= 2
    /\ EmptyRead(k)
    /\ io[k - 1].at = "loop_retry"
    /\ io[k - 1].ok

\* C18: the receive loop is left for the terminator only right after a read
\* that returned zero bytes and that was made after the latest retry "+read",
\* with nothing received since that retry: never without a read after the
\* latest retry and never when the last read brought bytes.  main() returns 0
\* only this way.
C18_DoneOnlyAfterListening ==
    /\ pc = "term_write" => ListenedAfterRetry(Len(io))
    /\ \A k \in At("term_write") : ListenedAfterRetry(k - 1)
    /\ (pc = "exited" /\ exitCode = 0)
          => /\ At("term_write") = {Len(io)}
             /\ At("loop_retry") # {}

\* bytes were received, then a silence, a retry and a second silence ended
\* the capture with the terminator
C18_Witness ==
    /\ pc = "exited"
    /\ exitCode = 0
    /\ \E k \in At("loop_write") : io[k].ok
    /\ ListenedAfterRetry(Len(io) - 1)

\* -------------------------------------------------------------------- C19
\* C19 (as claimed): every index of strBuf that main() writes is within
\* 0..1023: a read places at most 1024 bytes from index 0 on, the command
\* texts and their NUL fit, and the NUL stored at strBuf[numBytes] after the
\* version reply is within the buffer for every size 0..1024 of the reply, so
\* that no other object is written.
C19_BufferIndexInBounds ==
    /\ RunsLen(strBuf) <= BufSize
    /\ \A k \in Idx : io[k].op = "read" => io[k].n <= BufSize
    /\ nulAt <= BufSize - 1
    /\ hComm # "stray"

\* -------------------------------------------------------------------- C20
\* C20 (as claimed): for every command line with arguments, every index at
\* which the option loop reads argv (an option flag or an option's value) is
\* within 1..argc-1, so the null argv[argc] is never handed to strcmp or
\* strtol and the process never dies while the command line is read; after
\* the loop the filename is taken only when i < argc, and otherwise main()
\* returns 1.
C20_OptionIndexInBounds ==
    /\ (pc = "start" /\ Argc(argv) > 1)
          => /\ ParseArgs(argv).top <= Argc(argv) - 1
             /\ ~ParseArgs(argv).ub
             /\ ParseArgs(argv).i >= Argc(argv) => SanityCode(argv, ParseArgs(argv)) = 1
    /\ ~(pc = "crashed" /\ hComm = "null")
    /\ ArgsRejected(1) => NoIO

====
